---- MODULE Spec2Model ----
(***************************************************************************)
(* Provider registry, model-route table and API-key selectors of           *)
(* src/src/llms/src/services/provider.ts (classes ApiKeySelector and       *)
(* ProviderService).                                                       *)
(*                                                                         *)
(* The three JavaScript Maps of ProviderService are functions whose domain *)
(* is the set of keys present.  Route keys are the very strings the code   *)
(* builds (`${provider.name},${model}`).  Indices are 0-based as in the    *)
(* code; TLA+ sequences are 1-based, so keys[i] of the code is keys[i+1].  *)
(***************************************************************************)
EXTENDS Integers, Sequences, FiniteSets, TLC

\* ------------------------------------------------------------------ bounds
\* longest model list of a request
MaxModels == 2
\* longest apiKey array of a request
MaxKeys == 3
\* largest excludeIndex handed to selectApiKey (>= MaxKeys: beyond the array)
MaxExclude == 3
\* non-failure selectKey calls counted per round-robin selector
MaxCalls == 4

\* longest "providers" array of the configuration
MaxConfig == 3

\* provider names and model names of the requests
Names == {"A", "B"}
BaseUrl == "http://u1"
ModelNames == {"m1", "m2"}
Strategies == {"round-robin", "random", "failover"}

\* the apiKey arrays of the requests: [], ["k1"], ["k1","k2"], ...
KeyList(n) == [i \in 1..n |-> "k" \o ToString(i)]
KeyLists == {KeyList(n) : n \in 0..MaxKeys}

\* the model lists of the requests: every sequence of at most MaxModels names
ModelLists == UNION {[1..n -> ModelNames] : n \in 0..MaxModels}

ExcludeIndices == (-1)..MaxExclude

Range(s) == {s[i] : i \in DOMAIN s}

\* ------------------------------------------------------------------- state
VARIABLES
    providers,     \* ProviderService.providers   : name -> LLMProvider
    modelRoutes,   \* ProviderService.modelRoutes : route key -> ModelRoute
    keySelectors,  \* ProviderService.keySelectors: name -> ApiKeySelector
    ret,           \* the last call: operation, arguments and what it returned
    firstClaim,    \* history: per model, the first provider ever to serve it, while
                   \* it has served it without a break
    calls,         \* history: per round-robin selector, its non-failure selectKey
                   \* calls so far
    config,        \* the "providers" array the ConfigService handed the constructor
    requests       \* the in-flight requests of the callers: provider, position, key index

vars == <<providers, modelRoutes, keySelectors, ret, firstClaim, calls, config, requests>>

\* what no operation of ProviderService writes
env == <<config, requests>>

\* Map.set / Map.delete
MapSet(m, k, v) == [x \in (DOMAIN m) \cup {k} |-> IF x = k THEN v ELSE m[x]]
MapDelete(m, k) == [x \in (DOMAIN m) \ {k} |-> m[x]]
EmptyMap == [x \in {} |-> x]

\* what a call returned; the fields a call does not use keep these defaults
NoRet == [op |-> "none", name |-> "", exclude |-> -1, status |-> "ok",
          index |-> -1, key |-> "", count |-> -1, enabled |-> TRUE,
          resolution |-> [found |-> FALSE]]

\* ------------------------------------------------------------ ApiKeySelector
\* new ApiKeySelector(keys, strategy): currentIndex = 0
NewSelector(keys, strategy) ==
    [keys |-> keys, strategy |-> strategy, currentIndex |-> 0]

\* random drawing among all the keys, the failed one included
RandomChoicesAll(sel, excludeIndex) == 0..(Len(sel.keys) - 1)

\* The indices Math.floor(Math.random() * n) can produce for the random
\* strategy: with a failed key and more than one key, any index but
\* excludeIndex; otherwise any index.
RandomChoices(sel, excludeIndex) ==
    LET n == Len(sel.keys) IN
    IF excludeIndex >= 0 /\ n > 1
    THEN {i \in 0..(n - 1) : i # excludeIndex}
    ELSE 0..(n - 1)

\* random: the index drawn
RandomStep(sel, excludeIndex, rnd) == [i |-> rnd, c |-> sel.currentIndex]

\* failover that does not store the key it switched to
FailoverStepForgetful(sel, excludeIndex) ==
    IF excludeIndex >= 0
    THEN [i |-> (excludeIndex + 1) % Len(sel.keys), c |-> sel.currentIndex]
    ELSE [i |-> sel.currentIndex, c |-> sel.currentIndex]

\* failover: a failed key moves the stored index to the next key; without a
\* failed key the stored index is used again
FailoverStep(sel, excludeIndex) ==
    IF excludeIndex >= 0
    THEN [i |-> (excludeIndex + 1) % Len(sel.keys),
          c |-> (excludeIndex + 1) % Len(sel.keys)]
    ELSE [i |-> sel.currentIndex, c |-> sel.currentIndex]

\* round-robin that advances the cursor before reading it
RoundRobinStepAdvanceFirst(sel, excludeIndex) ==
    IF excludeIndex >= 0
    THEN [i |-> (excludeIndex + 1) % Len(sel.keys), c |-> sel.currentIndex]
    ELSE [i |-> (sel.currentIndex + 1) % Len(sel.keys),
          c |-> (sel.currentIndex + 1) % Len(sel.keys)]

\* round-robin whose failure call moves the cursor to the key it selected
RoundRobinStepFailureMoves(sel, excludeIndex) ==
    IF excludeIndex >= 0
    THEN [i |-> (excludeIndex + 1) % Len(sel.keys),
          c |-> (excludeIndex + 1) % Len(sel.keys)]
    ELSE [i |-> sel.currentIndex, c |-> (sel.currentIndex + 1) % Len(sel.keys)]

\* round-robin that returns the cursor and forgets to advance it
RoundRobinStepStuck(sel, excludeIndex) ==
    IF excludeIndex >= 0
    THEN [i |-> (excludeIndex + 1) % Len(sel.keys), c |-> sel.currentIndex]
    ELSE [i |-> sel.currentIndex, c |-> sel.currentIndex]

\* round-robin (and any other strategy value): a failed key selects the key
\* after it and leaves the cursor; without a failed key the cursor is returned
\* and then advanced
RoundRobinStep(sel, excludeIndex) ==
    IF excludeIndex >= 0
    THEN [i |-> (excludeIndex + 1) % Len(sel.keys), c |-> sel.currentIndex]
    ELSE [i |-> sel.currentIndex, c |-> (sel.currentIndex + 1) % Len(sel.keys)]

\* selectKey(excludeIndex): the result and the selector afterwards.  rnd is the
\* index the random strategy drew (one of RandomChoices); the other strategies
\* do not read it.
SelectKey(sel, excludeIndex, rnd) ==
    LET n == Len(sel.keys) IN
    IF n = 0 THEN [status |-> "NoKeysAvailable", index |-> -1, key |-> "", sel |-> sel]
    ELSE IF n = 1 THEN [status |-> "ok", index |-> 0, key |-> sel.keys[1], sel |-> sel]
    ELSE LET r == IF sel.strategy = "random" THEN RandomStep(sel, excludeIndex, rnd)
                  ELSE IF sel.strategy = "failover" THEN FailoverStep(sel, excludeIndex)
                  ELSE RoundRobinStep(sel, excludeIndex)
         IN [status |-> "ok", index |-> r.i, key |-> sel.keys[r.i + 1],
             sel |-> [sel EXCEPT !.currentIndex = r.c]]

\* getKeyCount()
GetKeyCount(sel) == Len(sel.keys)

\* ----------------------------------------------------------- ProviderService
\* `${provider.name},${model}`
FullModel(name, model) == name \o "," \o model

\* A provider record carries no id field (registerProvider copies the request,
\* and the requests built in initializeFromProvidersArray have none), so the
\* template `${provider.id},${model}` of updateProvider formats undefined.
UndefinedId == "undefined"

Route(name, model) ==
    [provider |-> name, model |-> model, fullModel |-> FullModel(name, model)]

\* models.forEach of registerProvider and updateProvider: always set the
\* qualified key, set the bare key only if the table has none
RECURSIVE InsertRoutes(_, _, _)
InsertRoutes(routes, name, models) ==
    IF models = <<>> THEN routes
    ELSE LET model == Head(models)
             withFull == MapSet(routes, FullModel(name, model), Route(name, model))
             withBare == IF model \in DOMAIN withFull THEN withFull
                         ELSE MapSet(withFull, model, Route(name, model))
         IN InsertRoutes(withBare, name, Tail(models))

\* provider.models.forEach of updateProvider and deleteProvider: delete the key
\* `${prefix},${model}` and the bare key, whoever the bare route points to
RECURSIVE DeleteRoutes(_, _, _)
DeleteRoutes(routes, prefix, models) ==
    IF models = <<>> THEN routes
    ELSE LET model == Head(models)
         IN DeleteRoutes(MapDelete(MapDelete(routes, FullModel(prefix, model)), model),
                         prefix, Tail(models))

NullRoute == [found |-> FALSE]

\* resolveModelRoute without the check that the route's provider is registered
ResolveModelRouteUnchecked(modelName) ==
    IF modelName \notin DOMAIN modelRoutes THEN NullRoute
    ELSE LET route == modelRoutes[modelName] IN
         [found |-> TRUE,
          provider |-> IF route.provider \in DOMAIN providers
                       THEN providers[route.provider] ELSE [name |-> "undefined"],
          originalModel |-> modelName, targetModel |-> route.model]

\* resolveModelRoute handing the requested name on as the target model
ResolveModelRouteTargetOriginal(modelName) ==
    IF modelName \notin DOMAIN modelRoutes THEN NullRoute
    ELSE LET route == modelRoutes[modelName] IN
         IF route.provider \notin DOMAIN providers THEN NullRoute
         ELSE [found |-> TRUE, provider |-> providers[route.provider],
               originalModel |-> modelName, targetModel |-> modelName]

\* resolveModelRoute(modelName)
ResolveModelRoute(modelName) ==
    IF modelName \notin DOMAIN modelRoutes THEN NullRoute
    ELSE LET route == modelRoutes[modelName] IN
         IF route.provider \notin DOMAIN providers THEN NullRoute
         ELSE [found |-> TRUE, provider |-> providers[route.provider],
               originalModel |-> modelName, targetModel |-> route.model]

\* getAvailableModelNames(), as the set of the names it lists
GetAvailableModelNames ==
    UNION {{providers[p].models[i], FullModel(providers[p].name, providers[p].models[i])}
           : <<p, i>> \in {<<q, j>> \in (DOMAIN providers) \X (1..MaxModels + 1)
                                  : j \in DOMAIN providers[q].models}}

\* getModelRoutes()
GetModelRoutes == {modelRoutes[k] : k \in DOMAIN modelRoutes}

\* registerProvider(request) on the three maps of `reg`
RegisterInto(reg, name, baseUrl, apiKey, strategy, models) ==
    [providers |-> MapSet(reg.providers, name,
                      [name |-> name, baseUrl |-> baseUrl, apiKey |-> apiKey,
                       apiKeyStrategy |-> strategy, models |-> models]),
     keySelectors |-> MapSet(reg.keySelectors, name, NewSelector(apiKey, strategy)),
     modelRoutes |-> InsertRoutes(reg.modelRoutes, name, models)]

\* ------------------------------------------------------------------ history
\* firstClaim after provider name comes to serve exactly the models of
\* `models`: an unclaimed model it serves is claimed by it for good, and its own
\* claim lapses, for good, on a model it serves no longer.
Unclaimed == "(none)"
Lapsed == "(lapsed)"
ServesIn(claims, name, models) ==
    [m \in ModelNames |->
        IF claims[m] = Unclaimed /\ m \in Range(models) THEN name
        ELSE IF claims[m] = name /\ m \notin Range(models) THEN Lapsed
        ELSE claims[m]]
Serves(name, models) == ServesIn(firstClaim, name, models)

\* ------------------------------------------------------------------ actions
Init ==
    /\ providers = EmptyMap
    /\ modelRoutes = EmptyMap
    /\ keySelectors = EmptyMap
    /\ ret = NoRet
    /\ firstClaim = [m \in ModelNames |-> Unclaimed]
    /\ calls = [n \in Names |-> 0]
    /\ config = <<>>
    /\ requests = EmptyMap

\* registerProvider(request)
RegisterProvider(name, baseUrl, apiKey, strategy, models) ==
    /\ LET reg == RegisterInto([providers |-> providers, keySelectors |-> keySelectors,
                                modelRoutes |-> modelRoutes],
                               name, baseUrl, apiKey, strategy, models)
       IN /\ providers' = reg.providers
          /\ keySelectors' = reg.keySelectors
          /\ modelRoutes' = reg.modelRoutes
    /\ ret' = [NoRet EXCEPT !.op = "registerProvider", !.name = name]
    /\ firstClaim' = Serves(name, models)
    /\ calls' = [calls EXCEPT ![name] = 0]

\* selectApiKey(providerName, excludeIndex)
SelectApiKey(name, excludeIndex) ==
    IF name \notin DOMAIN keySelectors
    THEN /\ ret' = [NoRet EXCEPT !.op = "selectApiKey", !.name = name,
                                 !.exclude = excludeIndex, !.status = "UnknownProvider"]
         /\ UNCHANGED <<providers, modelRoutes, keySelectors, firstClaim, calls>>
    ELSE LET sel == keySelectors[name] IN
         /\ (excludeIndex < 0 /\ sel.strategy = "round-robin") => calls[name] < MaxCalls
         /\ \E rnd \in (IF sel.strategy = "random" /\ Len(sel.keys) > 1
                        THEN RandomChoices(sel, excludeIndex) ELSE {0}) :
              LET r == SelectKey(sel, excludeIndex, rnd) IN
              /\ keySelectors' = MapSet(keySelectors, name, r.sel)
              /\ ret' = [NoRet EXCEPT !.op = "selectApiKey", !.name = name,
                                      !.exclude = excludeIndex, !.status = r.status,
                                      !.index = r.index, !.key = r.key]
              /\ calls' = IF excludeIndex < 0 /\ r.status = "ok"
                                /\ sel.strategy = "round-robin"
                          THEN [calls EXCEPT ![name] = @ + 1] ELSE calls
         /\ UNCHANGED <<providers, modelRoutes, firstClaim>>

\* getApiKeyCount(providerName)
GetApiKeyCount(name) ==
    /\ ret' = [NoRet EXCEPT !.op = "getApiKeyCount", !.name = name,
                            !.count = IF name \in DOMAIN keySelectors
                                      THEN GetKeyCount(keySelectors[name]) ELSE 0]
    /\ UNCHANGED <<providers, modelRoutes, keySelectors, firstClaim, calls>>

\* { ...provider, ...updates } (the updatedAt stamp is not kept: no value of
\* the model depends on the clock)
Merge(provider, updates) ==
    [f \in (DOMAIN provider) \cup (DOMAIN updates) |->
        IF f \in DOMAIN updates THEN updates[f] ELSE provider[f]]

\* updateProvider(id, updates)
UpdateProvider(id, updates) ==
    IF id \notin DOMAIN providers
    THEN /\ ret' = [NoRet EXCEPT !.op = "updateProvider", !.name = id,
                                 !.status = "notFound"]
         /\ UNCHANGED <<providers, modelRoutes, keySelectors, firstClaim, calls>>
    ELSE LET provider == providers[id] IN
         /\ providers' = MapSet(providers, id, Merge(provider, updates))
         /\ modelRoutes' =
              IF "models" \in DOMAIN updates
              THEN InsertRoutes(DeleteRoutes(modelRoutes, UndefinedId, provider.models),
                                provider.name, updates.models)
              ELSE modelRoutes
         /\ firstClaim' = IF "models" \in DOMAIN updates
                          THEN Serves(id, updates.models) ELSE firstClaim
         /\ ret' = [NoRet EXCEPT !.op = "updateProvider", !.name = id]
         /\ UNCHANGED <<keySelectors, calls>>

\* deleteProvider(id)
DeleteProvider(id) ==
    IF id \notin DOMAIN providers
    THEN /\ ret' = [NoRet EXCEPT !.op = "deleteProvider", !.name = id,
                                 !.status = "notFound"]
         /\ UNCHANGED <<providers, modelRoutes, keySelectors, firstClaim, calls>>
    ELSE LET provider == providers[id] IN
         /\ modelRoutes' = DeleteRoutes(modelRoutes, provider.name, provider.models)
         /\ providers' = MapDelete(providers, id)
         /\ firstClaim' = Serves(id, <<>>)
         /\ ret' = [NoRet EXCEPT !.op = "deleteProvider", !.name = id]
         /\ UNCHANGED <<keySelectors, calls>>

\* toggleProvider(name, enabled)
ToggleProvider(name, enabled) ==
    /\ ret' = [NoRet EXCEPT !.op = "toggleProvider", !.name = name,
                            !.enabled = enabled,
                            !.status = IF name \in DOMAIN providers
                                       THEN "ok" ELSE "notFound"]
    /\ UNCHANGED <<providers, modelRoutes, keySelectors, firstClaim, calls>>

\* resolveModelRoute(modelName), called: nothing is written
ResolveModelRouteCall(modelName) ==
    /\ ret' = [NoRet EXCEPT !.op = "resolveModelRoute", !.name = modelName,
                            !.resolution = ResolveModelRoute(modelName)]
    /\ UNCHANGED <<providers, modelRoutes, keySelectors, firstClaim, calls>>

\* ---------------------------------------------------- bulk initialization
\* A ConfigProvider entry: name and api_base_url are strings, "" standing for
\* a missing (or empty) one; api_key is missing, a string or an array;
\* api_key_strategy is "" when missing; models may be missing.
NoKey == [kind |-> "missing", val |-> <<>>]
StringKey == [kind |-> "string", val |-> <<>>]
ArrayKey(keys) == [kind |-> "array", val |-> keys]
NoModels == [given |-> FALSE, val |-> <<>>]
Models(models) == [given |-> TRUE, val |-> models]

\* the condition of the `if` that logs "Invalid provider config" and returns
InvalidProviderConfig(pc) ==
    \/ pc.name = ""
    \/ pc.api_base_url = ""
    \/ pc.api_key.kind = "missing"
    \/ pc.api_key.kind # "array"
    \/ Len(pc.api_key.val) = 0

\* the request initializeFromProvidersArray hands registerProvider (the
\* transformer instances, built by the TransformerService, are left out)
RequestOf(pc) ==
    [name |-> pc.name, baseUrl |-> pc.api_base_url, apiKey |-> pc.api_key.val,
     apiKeyStrategy |-> IF pc.api_key_strategy = "" THEN "round-robin"
                        ELSE pc.api_key_strategy,
     models |-> IF pc.models.given THEN pc.models.val ELSE <<>>]

\* one round of the forEach: an invalid entry is skipped, a valid one registered
LoadEntry(reg, pc) ==
    IF InvalidProviderConfig(pc) THEN reg
    ELSE LET request == RequestOf(pc)
         IN RegisterInto(reg, request.name, request.baseUrl, request.apiKey,
                         request.apiKeyStrategy, request.models)

\* a loader that gives up at the first invalid entry
RECURSIVE InitializeAbortOnInvalid(_, _)
InitializeAbortOnInvalid(reg, providersConfig) ==
    IF providersConfig = <<>> \/ InvalidProviderConfig(Head(providersConfig)) THEN reg
    ELSE InitializeAbortOnInvalid(LoadEntry(reg, Head(providersConfig)),
                                  Tail(providersConfig))

\* initializeFromProvidersArray(providersConfig)
RECURSIVE InitializeFromProvidersArray(_, _)
InitializeFromProvidersArray(reg, providersConfig) ==
    IF providersConfig = <<>> THEN reg
    ELSE InitializeFromProvidersArray(LoadEntry(reg, Head(providersConfig)),
                                      Tail(providersConfig))

\* firstClaim after the registrations of initializeFromProvidersArray
RECURSIVE ClaimsAfter(_, _)
ClaimsAfter(claims, providersConfig) ==
    IF providersConfig = <<>> THEN claims
    ELSE LET pc == Head(providersConfig)
         IN ClaimsAfter(IF InvalidProviderConfig(pc) THEN claims
                        ELSE ServesIn(claims, pc.name, RequestOf(pc).models),
                        Tail(providersConfig))

\* the entries of the configurations: well-formed ones, with and without
\* strategy and models, and entries with one defect each
GoodEntries ==
    {[name |-> n, api_base_url |-> BaseUrl, api_key |-> ArrayKey(ks),
      api_key_strategy |-> sm[1], models |-> sm[2]] :
        n \in Names, ks \in {KeyList(1), KeyList(2)},
        sm \in {<<"", NoModels>>, <<"failover", Models(<<"m1">>)>>}}
BadEntry(n, url, key) ==
    [name |-> n, api_base_url |-> url, api_key |-> key,
     api_key_strategy |-> "", models |-> Models(<<"m2">>)]
BadEntries ==
    {BadEntry("", BaseUrl, ArrayKey(KeyList(1))),
     BadEntry("B", "", ArrayKey(KeyList(1))),
     BadEntry("A", BaseUrl, NoKey),
     BadEntry("A", BaseUrl, StringKey),
     BadEntry("A", BaseUrl, ArrayKey(<<>>))}
ConfigLists == UNION {[1..n -> GoodEntries \cup BadEntries] : n \in 0..MaxConfig}

\* new ProviderService(configService, ...): the maps after
\* initializeCustomProviders has loaded the configured providers array
InitConfig ==
    /\ config \in ConfigLists
    /\ LET reg == InitializeFromProvidersArray(
                     [providers |-> EmptyMap, keySelectors |-> EmptyMap,
                      modelRoutes |-> EmptyMap], config)
       IN /\ providers = reg.providers
          /\ keySelectors = reg.keySelectors
          /\ modelRoutes = reg.modelRoutes
    /\ ret = NoRet
    /\ firstClaim = ClaimsAfter([m \in ModelNames |-> Unclaimed], config)
    /\ calls = [n \in Names |-> 0]
    /\ requests = EmptyMap

\* ------------------------------------------------------ in-flight requests
\* Two requests are in flight at once.  Each asks selectApiKey for a key of its
\* provider once, and may come back with the index it got after that key
\* failed.  selectApiKey runs to its return without suspending, so each call is
\* one step; the requests' steps interleave in every order.
Requests == {"r1", "r2"}

\* the selectors a provider can be found with: any key array but the empty
\* one, any strategy, and any cursor the strategy can have left behind
SelectorStates ==
    {sel \in [keys : KeyLists \ {<<>>}, strategy : Strategies,
              currentIndex : 0..(MaxKeys - 1)] :
        /\ sel.currentIndex < Len(sel.keys)
        /\ (sel.strategy = "random" \/ Len(sel.keys) = 1) => sel.currentIndex = 0}

InitRequests ==
    /\ keySelectors \in [Names -> SelectorStates]
    /\ providers = [n \in Names |->
                      [name |-> n, baseUrl |-> BaseUrl, apiKey |-> keySelectors[n].keys,
                       apiKeyStrategy |-> keySelectors[n].strategy, models |-> <<>>]]
    /\ modelRoutes = EmptyMap
    /\ ret = NoRet
    /\ firstClaim = [m \in ModelNames |-> Unclaimed]
    /\ calls = [n \in Names |->
                  IF keySelectors[n].strategy = "round-robin" /\ Len(keySelectors[n].keys) > 1
                  THEN keySelectors[n].currentIndex ELSE 0]
    /\ config = <<>>
    /\ \E target \in [Requests -> Names] :
         requests = [r \in Requests |->
                       [provider |-> target[r], pc |-> "pending", index |-> -1,
                        seen |-> keySelectors[target[r]].currentIndex]]

\* a request asks for its key: selectApiKey(provider)
RequestSelect(r) ==
    /\ requests[r].pc = "pending"
    /\ SelectApiKey(requests[r].provider, -1)
    /\ requests' = [requests EXCEPT ![r].pc = "selected", ![r].index = ret'.index]
    /\ UNCHANGED config

\* the key failed: selectApiKey(provider, index)
RequestRetry(r) ==
    /\ requests[r].pc = "selected"
    /\ SelectApiKey(requests[r].provider, requests[r].index)
    /\ requests' = [requests EXCEPT ![r].pc = "retried"]
    /\ UNCHANGED config

\* ----------------------------------------------------------- specifications
\* the updates of the requests
ModelUpdates == {("models" :> ms) : ms \in ModelLists} \cup {EmptyMap}
KeyUpdates == {("apiKey" :> KeyList(1))}

\* Registry and route table: providers with one key come, change their model
\* lists and go.
Next ==
    \/ \E name \in Names, models \in ModelLists :
         RegisterProvider(name, BaseUrl, KeyList(1), "round-robin", models)
           /\ UNCHANGED env
    \/ \E id \in Names, updates \in ModelUpdates :
         UpdateProvider(id, updates) /\ UNCHANGED env
    \/ \E id \in Names : DeleteProvider(id) /\ UNCHANGED env
    \/ \E name \in Names, enabled \in BOOLEAN :
         ToggleProvider(name, enabled) /\ UNCHANGED env

Spec == Init /\ [][Next]_vars

\* Key selection: providers without models come with every key array and
\* strategy, have keys selected and counted, are edited and go.
NextKeys ==
    \/ \E name \in Names, apiKey \in KeyLists, strategy \in Strategies :
         RegisterProvider(name, BaseUrl, apiKey, strategy, <<>>) /\ UNCHANGED env
    \/ \E name \in Names, excludeIndex \in ExcludeIndices :
         SelectApiKey(name, excludeIndex) /\ UNCHANGED env
    \/ \E name \in Names : GetApiKeyCount(name) /\ UNCHANGED env
    \/ \E id \in Names, updates \in KeyUpdates :
         UpdateProvider(id, updates) /\ UNCHANGED env
    \/ \E id \in Names : DeleteProvider(id) /\ UNCHANGED env

SpecKeys == Init /\ [][NextKeys]_vars

\* Round-robin cursors: round-robin providers come with every key array, have
\* keys selected after successes and failures, are edited and go.
NextCursor ==
    \/ \E name \in Names, apiKey \in KeyLists :
         RegisterProvider(name, BaseUrl, apiKey, "round-robin", <<>>) /\ UNCHANGED env
    \/ \E name \in Names, excludeIndex \in ExcludeIndices :
         SelectApiKey(name, excludeIndex) /\ UNCHANGED env
    \/ \E id \in Names, updates \in KeyUpdates :
         UpdateProvider(id, updates) /\ UNCHANGED env
    \/ \E id \in Names : DeleteProvider(id) /\ UNCHANGED env

SpecCursor == Init /\ [][NextCursor]_vars

\* the names handed to resolveModelRoute: bare, qualified and unknown ones
RouteNames ==
    ModelNames \cup {FullModel(n, m) : n \in Names, m \in ModelNames} \cup {"m0"}

\* Resolution: providers with at most one model come, are edited (models, keys,
\* base URL) and go, and model names are resolved in between.
ShortModelLists == {models \in ModelLists : Len(models) <= 1}
ResolveUpdates ==
    {("models" :> models) : models \in ShortModelLists}
       \cup {("apiKey" :> KeyList(2)), ("baseUrl" :> "http://u2")}
NextResolve ==
    \/ \E name \in Names, models \in ShortModelLists :
         RegisterProvider(name, BaseUrl, KeyList(1), "round-robin", models)
           /\ UNCHANGED env
    \/ \E id \in Names, updates \in ResolveUpdates :
         UpdateProvider(id, updates) /\ UNCHANGED env
    \/ \E id \in Names : DeleteProvider(id) /\ UNCHANGED env
    \/ \E modelName \in RouteNames : ResolveModelRouteCall(modelName) /\ UNCHANGED env

SpecResolve == Init /\ [][NextResolve]_vars

\* First claims: providers come with every model list, lose their models
\* and go.
NextFirst ==
    \/ \E name \in Names, models \in ModelLists :
         RegisterProvider(name, BaseUrl, KeyList(1), "round-robin", models)
           /\ UNCHANGED env
    \/ \E id \in Names : UpdateProvider(id, ("models" :> <<>>)) /\ UNCHANGED env
    \/ \E id \in Names : DeleteProvider(id) /\ UNCHANGED env

SpecFirst == Init /\ [][NextFirst]_vars

\* Construction from a configured providers array, then reads.
NextConfig ==
    \/ \E name \in Names : GetApiKeyCount(name) /\ UNCHANGED env
    \/ \E modelName \in RouteNames : ResolveModelRouteCall(modelName) /\ UNCHANGED env

SpecConfig == InitConfig /\ [][NextConfig]_vars

\* Two requests in flight on registered providers.
NextRequests ==
    \/ \E r \in Requests : RequestSelect(r)
    \/ \E r \in Requests : RequestRetry(r)

SpecRequests == InitRequests /\ [][NextRequests]_vars

\* ------------------------------------------------------------------- claims
\* the selector a selectApiKey call recorded in ret ran on
RetSelector == keySelectors[ret.name]
RetIsSelect == ret.op = "selectApiKey" /\ ret.status = "ok"

\* C1 (first claim wins): for every model m, if provider P was the first ever
\* to serve m and has been registered and serving m ever since,
\* resolveModelRoute(m) resolves to P; and for every registered provider Q that
\* serves m, resolveModelRoute("Q,m") resolves to Q.
C1_FirstClaimWins ==
    \A m \in ModelNames :
       /\ firstClaim[m] \in Names =>
            /\ ResolveModelRoute(m).found
            /\ ResolveModelRoute(m).provider.name = firstClaim[m]
       /\ \A Q \in DOMAIN providers :
            m \in Range(providers[Q].models) =>
               /\ ResolveModelRoute(FullModel(Q, m)).found
               /\ ResolveModelRoute(FullModel(Q, m)).provider.name = Q

\* C2 (update replaces the provider's own routes): a successful
\* updateProvider(P, {models: new}) removes the qualified route "P,m" and P's
\* bare route m for every m of the old list that is not in new, leaves a
\* qualified route "P,m" -> (P, m) and a bare route for every m in new (P's own
\* if m had no bare route), and leaves every route of another provider as it was.
C2_UpdateReplacesOwnRoutes ==
    [][(ret'.op = "updateProvider" /\ ret'.status = "ok"
          /\ providers'[ret'.name].models # providers[ret'.name].models) =>
        LET P == ret'.name
            old == Range(providers[P].models)
            new == Range(providers'[P].models)
        IN /\ \A m \in old \ new :
                /\ FullModel(P, m) \notin DOMAIN modelRoutes'
                /\ ~(m \in DOMAIN modelRoutes' /\ modelRoutes'[m].provider = P)
           /\ \A m \in new :
                /\ FullModel(P, m) \in DOMAIN modelRoutes'
                /\ modelRoutes'[FullModel(P, m)] = Route(P, m)
                /\ m \in DOMAIN modelRoutes'
                /\ m \notin DOMAIN modelRoutes => modelRoutes'[m] = Route(P, m)
           /\ \A k \in DOMAIN modelRoutes :
                modelRoutes[k].provider # P =>
                   k \in DOMAIN modelRoutes' /\ modelRoutes'[k] = modelRoutes[k]
      ]_vars

\* C3 (delete removes the provider's routes and only those): after a
\* successful deleteProvider(P) no route names P, getAvailableModelNames()
\* lists no qualified name "P,m", and every route of another provider is as
\* it was.
C3_DeleteRemovesOwnRoutes ==
    [][(ret'.op = "deleteProvider" /\ ret'.status = "ok") =>
        LET P == ret'.name
        IN /\ \A k \in DOMAIN modelRoutes' : modelRoutes'[k].provider # P
           /\ \A m \in ModelNames : FullModel(P, m) \notin GetAvailableModelNames'
           /\ \A k \in DOMAIN modelRoutes :
                modelRoutes[k].provider # P =>
                   k \in DOMAIN modelRoutes' /\ modelRoutes'[k] = modelRoutes[k]
      ]_vars

\* C4 (no dangling route): every entry of getModelRoutes() names a provider
\* that is registered.
C4_RoutesNameRegisteredProviders ==
    \A route \in GetModelRoutes : route.provider \in DOMAIN providers

\* C5 (round-robin cycle): on a round-robin selector with n >= 2 keys, the
\* k-th non-failure selectKey() call since the selector was built returns index
\* (k - 1) mod n and the key stored at that index.
C5_RoundRobinCycle ==
    (RetIsSelect /\ ret.exclude = -1 /\ RetSelector.strategy = "round-robin"
        /\ Len(RetSelector.keys) >= 2) =>
       /\ ret.index = (calls[ret.name] - 1) % Len(RetSelector.keys)
       /\ ret.key = RetSelector.keys[ret.index + 1]

\* the fourth call of a three-key cycle: back at index 0
C5_Witness ==
    /\ RetIsSelect /\ ret.exclude = -1 /\ RetSelector.strategy = "round-robin"
    /\ Len(RetSelector.keys) = 3 /\ calls[ret.name] = 4 /\ ret.index = 0

\* C6 (failover is sticky): on a failover selector with n >= 2 keys, a failure
\* call selectKey(e), e >= 0, returns (e + 1) mod n and stores it; a
\* non-failure call returns the stored index and leaves it; nothing else but
\* registering the provider anew changes the stored index.
C6_FailoverSticky ==
    [][\A p \in DOMAIN keySelectors :
         (/\ keySelectors[p].strategy = "failover"
          /\ Len(keySelectors[p].keys) >= 2
          /\ ~(ret'.op = "registerProvider" /\ ret'.name = p)) =>
            LET n == Len(keySelectors[p].keys) IN
            IF ret'.op = "selectApiKey" /\ ret'.name = p /\ ret'.exclude >= 0
            THEN /\ ret'.status = "ok"
                 /\ ret'.index = (ret'.exclude + 1) % n
                 /\ keySelectors'[p].currentIndex = ret'.index
            ELSE /\ keySelectors'[p] = keySelectors[p]
                 /\ (ret'.op = "selectApiKey" /\ ret'.name = p) =>
                       /\ ret'.status = "ok"
                       /\ ret'.index = keySelectors[p].currentIndex
                       /\ ret'.key = keySelectors[p].keys[ret'.index + 1]
      ]_vars

\* a non-failure call answered with a key other than the first: the index an
\* earlier failure call stored
C6_Witness ==
    /\ RetIsSelect /\ ret.exclude = -1 /\ RetSelector.strategy = "failover"
    /\ Len(RetSelector.keys) >= 2
    /\ ret.index = RetSelector.currentIndex /\ ret.index # 0

\* C7 (random avoids the failed key): on a random selector with more than one
\* key, selectKey(e) with e >= 0 returns a valid index other than e.
C7_RandomExcludesFailed ==
    (RetIsSelect /\ ret.exclude >= 0 /\ RetSelector.strategy = "random"
        /\ Len(RetSelector.keys) > 1) =>
       /\ ret.index \in 0..(Len(RetSelector.keys) - 1)
       /\ ret.index # ret.exclude

\* a failure call naming the last key of a random selector
C7_Witness ==
    /\ RetIsSelect /\ RetSelector.strategy = "random"
    /\ Len(RetSelector.keys) = 3 /\ ret.exclude = 2 /\ ret.index = 0

\* C8 (indices stay valid): every registered provider has a selector whose
\* currentIndex is a valid index into its keys, and every index selectApiKey
\* returned is a valid index into the keys.
C8_IndicesValid ==
    /\ \A p \in DOMAIN providers :
          /\ p \in DOMAIN keySelectors
          /\ 0 <= keySelectors[p].currentIndex
          /\ keySelectors[p].currentIndex < Len(keySelectors[p].keys)
    /\ RetIsSelect => ret.index \in 0..(Len(RetSelector.keys) - 1)

\* C9 (delete removes the key selector): a successful deleteProvider(P) leaves
\* no key selector for P, and a selectApiKey(P) that follows it fails with
\* UnknownProvider.
C9_DeleteRemovesKeySelector ==
    [][/\ (ret'.op = "deleteProvider" /\ ret'.status = "ok") =>
             ret'.name \notin DOMAIN keySelectors'
       /\ (ret.op = "deleteProvider" /\ ret.status = "ok"
             /\ ret'.op = "selectApiKey" /\ ret'.name = ret.name) =>
             ret'.status = "UnknownProvider"
      ]_vars

\* C10 (unknown provider): selectApiKey(name) and getApiKeyCount(name) on a
\* name that is not registered fail with UnknownProvider.
C10_UnknownProviderFails ==
    (ret.op \in {"selectApiKey", "getApiKeyCount"} /\ ret.name \notin DOMAIN providers)
       => ret.status = "UnknownProvider"

\* C11 (registration validates): every registered provider has a name, a base
\* URL and a non-empty apiKey array, and selectApiKey on a registered provider
\* never fails with NoKeysAvailable.
C11_RegisteredProvidersHaveKeys ==
    /\ \A p \in DOMAIN providers :
          /\ providers[p].name # ""
          /\ providers[p].baseUrl # ""
          /\ Len(providers[p].apiKey) > 0
    /\ (ret.op = "selectApiKey" /\ ret.name \in DOMAIN providers)
          => ret.status # "NoKeysAvailable"

\* C12 (bulk loading is fault tolerant per entry): after construction from any
\* providers array, every well-formed entry's name is registered, with the
\* provider and key selector of the last well-formed entry of that name and
\* with the routes of every well-formed entry, and only names of well-formed
\* entries are registered.
WellFormed(pc) ==
    pc.name # "" /\ pc.api_base_url # "" /\ pc.api_key.kind = "array"
       /\ pc.api_key.val # <<>>
LastWellFormed(name) ==
    config[CHOOSE i \in DOMAIN config :
              /\ WellFormed(config[i]) /\ config[i].name = name
              /\ \A j \in DOMAIN config :
                    (WellFormed(config[j]) /\ config[j].name = name) => j <= i]
C12_BulkLoadFaultTolerant ==
    /\ \A i \in DOMAIN config :
          WellFormed(config[i]) =>
             LET name == config[i].name
                 last == LastWellFormed(name)
                 strategy == IF last.api_key_strategy = "" THEN "round-robin"
                             ELSE last.api_key_strategy
             IN /\ name \in DOMAIN providers
                /\ providers[name].name = name
                /\ providers[name].baseUrl = last.api_base_url
                /\ providers[name].apiKey = last.api_key.val
                /\ providers[name].apiKeyStrategy = strategy
                /\ providers[name].models = last.models.val
                /\ name \in DOMAIN keySelectors
                /\ keySelectors[name] = NewSelector(last.api_key.val, strategy)
                /\ \A m \in Range(config[i].models.val) :
                      /\ FullModel(name, m) \in DOMAIN modelRoutes
                      /\ modelRoutes[FullModel(name, m)] = Route(name, m)
                      /\ m \in DOMAIN modelRoutes
    /\ \A name \in DOMAIN providers :
          \E i \in DOMAIN config : WellFormed(config[i]) /\ config[i].name = name

\* a malformed entry between two well-formed ones, both of which are registered
C12_Witness ==
    /\ Len(config) = 3
    /\ WellFormed(config[1]) /\ ~WellFormed(config[2]) /\ WellFormed(config[3])
    /\ config[1].name = "A" /\ config[3].name = "B"
    /\ config[3].models.val = <<"m1">>
    /\ DOMAIN providers = {"A", "B"}
    /\ ResolveModelRoute("B,m1").found

\* C13 (routing skips a disabled provider): after a successful
\* toggleProvider(P, false) the provider is still registered and no name
\* resolves to P.
C13_DisabledProviderNotRouted ==
    (ret.op = "toggleProvider" /\ ret.status = "ok" /\ ~ret.enabled) =>
       /\ ret.name \in DOMAIN providers
       /\ \A k \in RouteNames :
             ResolveModelRoute(k).found => ResolveModelRoute(k).provider.name # ret.name

\* C14 (a resolution is a live reference): when updateProvider(P, fields)
\* follows a resolveModelRoute that returned a resolution for P, the provider
\* record seen through that resolution is the record getProvider(P) returns.
\* (No operation writes into a provider object once built, so the record seen
\* through the resolution is the one it was returned with.)
C14_ResolutionIsLive ==
    [][(/\ ret.op = "resolveModelRoute" /\ ret.resolution.found
        /\ ret'.op = "updateProvider" /\ ret'.status = "ok"
        /\ ret'.name = ret.resolution.provider.name) =>
          ret.resolution.provider = providers'[ret'.name]
      ]_vars

\* C15 (cursor updates are serializable): once the two requests have both made
\* their non-failure call on the same round-robin provider with n >= 2 keys,
\* whatever the order of their steps, they hold the two distinct indices i and
\* (i + 1) mod n, i being the cursor both found, and the cursor is (i + 2) mod n.
C15_CursorSerializable ==
    \A r1, r2 \in Requests :
       (/\ r1 # r2
        /\ requests[r1].pc # "pending" /\ requests[r2].pc # "pending"
        /\ requests[r1].provider = requests[r2].provider
        /\ keySelectors[requests[r1].provider].strategy = "round-robin"
        /\ Len(keySelectors[requests[r1].provider].keys) >= 2) =>
          LET sel == keySelectors[requests[r1].provider]
              n == Len(sel.keys)
              i == requests[r1].seen
          IN /\ requests[r1].index # requests[r2].index
             /\ {requests[r1].index, requests[r2].index} = {i, (i + 1) % n}
             /\ sel.currentIndex = (i + 2) % n

\* r2 went first: it holds the cursor both found, r1 the next index, wrapped
C15_Witness ==
    /\ requests["r1"].provider = "A" /\ requests["r2"].provider = "A"
    /\ keySelectors["A"].strategy = "round-robin" /\ Len(keySelectors["A"].keys) = 3
    /\ requests["r1"].pc = "retried" /\ requests["r2"].pc = "selected"
    /\ requests["r2"].seen = 2 /\ requests["r2"].index = 2 /\ requests["r1"].index = 0
    /\ keySelectors["A"].currentIndex = 1

\* C16 (resolution never fails): a resolveModelRoute call writes nothing and
\* returns; for a name without route, or with a route whose provider is not
\* registered, it returns null.
C16_ResolveReturnsNull ==
    [][ret'.op = "resolveModelRoute" =>
         /\ UNCHANGED <<providers, modelRoutes, keySelectors>>
         /\ ret'.status = "ok"
         /\ (\/ ret'.name \notin DOMAIN modelRoutes
             \/ modelRoutes[ret'.name].provider \notin DOMAIN providers)
               => ~ret'.resolution.found
      ]_vars

\* a route that outlived its provider, resolved to null
C16_Witness ==
    /\ ret.op = "resolveModelRoute" /\ ret.name \in DOMAIN modelRoutes
    /\ modelRoutes[ret.name].provider \notin DOMAIN providers
    /\ ~ret.resolution.found

C18_CursorFollowsCalls ==
    \A p \in DOMAIN keySelectors :
       (keySelectors[p].strategy = "round-robin" /\ Len(keySelectors[p].keys) >= 2) =>
          keySelectors[p].currentIndex = calls[p] % Len(keySelectors[p].keys)
C18_FailureLeavesCursor ==
    \A p \in DOMAIN keySelectors :
       (/\ keySelectors[p].strategy = "round-robin" /\ Len(keySelectors[p].keys) >= 2
        /\ ret'.op = "selectApiKey" /\ ret'.name = p /\ ret'.exclude >= 0) =>
          /\ ret'.status = "ok"
          /\ ret'.index = (ret'.exclude + 1) % Len(keySelectors[p].keys)
          /\ ret'.key = keySelectors[p].keys[ret'.index + 1]
          /\ keySelectors' = keySelectors
C18_RoundRobinFailureCall ==
    [](C18_CursorFollowsCalls) /\ [][C18_FailureLeavesCursor]_vars

\* after one non-failure call, the last key is reported failed: the first key is
\* returned and the cursor stays on the second
C18_Witness ==
    /\ RetIsSelect /\ ret.exclude = 2 /\ ret.index = 0
    /\ RetSelector.strategy = "round-robin" /\ Len(RetSelector.keys) = 3
    /\ RetSelector.currentIndex = 1 /\ calls[ret.name] = 1

\* C19 (listed implies resolvable): every name getAvailableModelNames() lists
\* resolves.
C19_ListedResolves ==
    \A name \in GetAvailableModelNames : ResolveModelRoute(name).found

\* C20 (resolvable implies served): whenever a name resolves, the target model
\* is in the model list of the provider returned.
C20_ResolvedIsServed ==
    \A name \in DOMAIN modelRoutes :
       ResolveModelRoute(name).found =>
          ResolveModelRoute(name).targetModel
             \in Range(ResolveModelRoute(name).provider.models)

====
